---- MODULE Spec2Model ----
(***************************************************************************)
(* GraphRAG-Pipeline: the agentic question-answering loop of               *)
(* src/src/chatbot.py (GraphRAGChatbot.build_workflow and                  *)
(* GraphRAGChatbot.ask) over the AgentState of src/src/graph_state.py.     *)
(*                                                                         *)
(* Spec     : ask() driving the workflow compiled by build_workflow: the   *)
(*            "agent" node, the conditional edge tools_condition, the      *)
(*            "tools" node and the edge tools -> agent.                    *)
(* SpecAsk  : ask() with build_workflow replaced by a stub application, as *)
(*            src/tests/test_chatbot.py does, so that the final state      *)
(*            handed to the answer extraction is arbitrary.                *)
(***************************************************************************)
EXTENDS Integers, Sequences, FiniteSets, TLC

VARIABLES
    pc,          \* position of ask(): idle, agent, tools, ended, raised, returned
    question,    \* argument of the running (or last) call of ask
    messages,    \* state["messages"] of the running (or last) workflow run
    step,        \* super-steps the compiled workflow has executed in this run
    raised,      \* which call raised inside the try block of ask ("none" if none);
                 \* the state of the run is lost with the exception
    answer,      \* value returned by the last completed call of ask
    propagated,  \* TRUE iff the last call of ask let an exception escape
    asked,       \* number of calls of ask started so far
    tcall,       \* the last invocation of a tool of graph_nodes.py: tool and arguments
    tres,        \* its outcome: value returned, whether an exception left the
                 \* tool, and the calls it made on its dependencies, in order
    store,       \* contents of the graph store
    heap,        \* the objects grade_documents_tool works on: the caller's list
                 \* and its documents, the tool's own list filtered_docs, and
                 \* the values the runs returned
    turn,        \* the tool calls of one assistant turn under execution
    db,          \* nodes of the Neo4j database the ingestor writes to
    ingest       \* what the last call of process_document_json did

loopVars == <<pc, question, messages, step, raised, answer, propagated, asked>>

toolVars == <<tcall, tres, store>>

extVars == <<heap, turn, db, ingest>>

vars == <<pc, question, messages, step, raised, answer, propagated, asked,
          tcall, tres, store, heap, turn, db, ingest>>

----------------------------------------------------------------------------
(* Bounds of the model *)

\* super-steps one run of the compiled workflow may execute before the graph
\* runtime raises; ask() passes no config to app.invoke, so the runtime's own
\* default applies (scaled down here)
RecursionLimit == 3

\* calls of ask on one chatbot
MaxSessions == 2

\* tool-call requests in one assistant Message
MaxToolCalls == 2

\* Messages in a final state returned by a stub application
MaxStubLen == 2

----------------------------------------------------------------------------
(* Fixed strings of ask() *)

\* chatbot.py:313
DegradedMessage == "Mi dispiace, non sono riuscito a generare una risposta."

\* chatbot.py:317
GenericErrorMessage == "Mi dispiace, si è verificato un errore nel processare la tua domanda."

\* value of `answer` before any call of ask has returned
NoAnswer == "<none>"

----------------------------------------------------------------------------
(* Inputs *)

Questions == {"", "q1"}

\* text of an assistant Message
Contents == {"", "a1"}

\* the tools list of build_workflow
ToolRegistry ==
    {"hybrid_search_tool", "structured_query_tool", "web_search_tool",
     "rewrite_query_tool", "grade_documents_tool", "grade_answer_tool"}

\* tool names the model requests here: one retrieval tool and one grader
RequestedTools == {"hybrid_search_tool", "grade_answer_tool"}

(* graph_nodes.py:24-268 *)
\* serialized return values of the tools: the retrieval tools and
\* grade_documents_tool return a list of documents, empty or not;
\* rewrite_query_tool returns the rewritten text, or the question it was given
\* when the chain is missing or raises; grade_answer_tool returns one of its
\* three verdicts
ToolOutputs(name) ==
    CASE name = "rewrite_query_tool" -> Questions \cup {"rewritten"}
      [] name = "grade_answer_tool"  -> {"utile", "non utile", "non supportato"}
      [] OTHER                       -> {"[]", "[doc]"}

----------------------------------------------------------------------------
(* Messages *)

\* shape "object": a structured message (HumanMessage, AIMessage, ToolMessage);
\* shape "mapping": a plain dict.  has_content: the object has the attribute
\* `content`, respectively the dict has the key 'content'.
Msg(shape, has_content, role, content, tool_calls, tool_call_id) ==
    [shape |-> shape, has_content |-> has_content, role |-> role,
     content |-> content, tool_calls |-> tool_calls,
     tool_call_id |-> tool_call_id]

HumanMessage(content) == Msg("object", TRUE, "user", content, <<>>, 0)

AIMessage(content, tool_calls) ==
    Msg("object", TRUE, "assistant", content, tool_calls, 0)

ToolMessage(content, tool_call_id) ==
    Msg("object", TRUE, "tool", content, <<>>, tool_call_id)

ToolCall(name, id) == [name |-> name, id |-> id]

RECURSIVE CallCount(_)
\* number of tool-call requests in a history
CallCount(msgs) ==
    IF msgs = <<>> THEN 0
    ELSE Len(msgs[Len(msgs)].tool_calls) + CallCount(SubSeq(msgs, 1, Len(msgs) - 1))

\* tool-call batches the model may emit after history msgs: up to MaxToolCalls
\* requests, each with a call identifier not used before in the session
ToolCallBatches(msgs) ==
    LET base == CallCount(msgs) IN
    UNION {
        { [i \in 1..n |-> ToolCall(names[i], base + i)] : names \in [1..n -> RequestedTools] }
        : n \in 0..MaxToolCalls }

\* responses of llm_with_tools.invoke(state["messages"])
ModelResponses(msgs) ==
    { AIMessage(c, calls) : c \in Contents, calls \in ToolCallBatches(msgs) }

----------------------------------------------------------------------------
(* graph_state.py: the reducer of AgentState.messages *)

\* a channel without the reducer: the update overwrites the list
add_messagesOverwrite(left, right) == right

add_messages(left, right) == left \o right

(* chatbot.py:300 *)
\* the history of the previous run is kept and the question added to it
InitialStateKeepingHistory(q) == Append(messages, HumanMessage(q))

InitialState(q) == <<HumanMessage(q)>>

(* chatbot.py:279-286, tools_condition on the last Message *)
\* routing on the text of the response instead of its tool calls
tools_conditionOnContent(msgs) ==
    IF msgs[Len(msgs)].content = "" THEN "tools" ELSE "ended"

tools_condition(msgs) ==
    IF Len(msgs[Len(msgs)].tool_calls) > 0 THEN "tools" ELSE "ended"

(* chatbot.py:289 *)
\* routing on the verdict of the last tool instead of the fixed edge
AfterToolsByVerdict(results) ==
    IF results[Len(results)].content \in {"[]", "non supportato"} THEN "ended" ELSE "agent"

AfterTools(results) == "agent"

(* chatbot.py:265-271, the "tools" node: the requests of the last assistant  *)
(* Message that are executed                                                 *)
\* only the first request of the batch is executed
ExecutedCallsFirstOnly(calls) == SubSeq(calls, 1, 1)

ExecutedCalls(calls) == calls

\* every serialized tool return value
AllToolOutputs == UNION { ToolOutputs(name) : name \in ToolRegistry }

\* the ToolResults of a batch: one per executed request, in the order of the
\* requests, each carrying the identifier of its request
ToolResults(calls) ==
    LET run == ExecutedCalls(calls) IN
    { [i \in 1..Len(run) |-> ToolMessage(outs[i], run[i].id)] :
        outs \in { f \in [1..Len(run) -> AllToolOutputs] :
                     \A i \in 1..Len(run) : f[i] \in ToolOutputs(run[i].name) } }

(* chatbot.py:305-313 *)
\* the plain-mapping branch is missing
ExtractAnswerObjectOnly(final) ==
    IF final # <<>>
    THEN LET last_message == final[Len(final)] IN
         IF last_message.shape = "object" /\ last_message.has_content
         THEN last_message.content
         ELSE DegradedMessage
    ELSE DegradedMessage

\* the emptiness test is missing: indexing the empty list raises and the
\* except clause answers
ExtractAnswerNoEmptyCheck(final) ==
    IF final = <<>>
    THEN GenericErrorMessage
    ELSE LET last_message == final[Len(final)] IN
         IF last_message.has_content THEN last_message.content ELSE DegradedMessage

\* the empty question is answered with the degraded-service message
ExtractAnswerRejectingEmptyQuestion(final) ==
    IF question = "" \/ final = <<>>
    THEN DegradedMessage
    ELSE LET last_message == final[Len(final)] IN
         IF last_message.has_content THEN last_message.content ELSE DegradedMessage

ExtractAnswer(final) ==
    IF final # <<>>
    THEN LET last_message == final[Len(final)] IN
         IF last_message.shape = "object" /\ last_message.has_content
         THEN last_message.content
         ELSE IF last_message.shape = "mapping" /\ last_message.has_content
              THEN last_message.content
              ELSE DegradedMessage
    ELSE DegradedMessage

(* chatbot.py:315-317 *)
\* an except clause that does not cover the runtime's recursion error
OnExceptionNarrow(cause) ==
    IF cause = "recursion"
    THEN [answer |-> answer, propagated |-> TRUE]
    ELSE [answer |-> GenericErrorMessage, propagated |-> FALSE]

OnException(cause) == [answer |-> GenericErrorMessage, propagated |-> FALSE]

----------------------------------------------------------------------------
(* graph_nodes.py: the tools.  A tool is an operator from its arguments and  *)
(* the behaviour of its injected dependencies to an outcome.                 *)

\* an injected dependency: None (present = FALSE), or an object whose call
\* either raises or returns out
Dep(present, raises, out) == [present |-> present, raises |-> raises, out |-> out]

None == Dep(FALSE, FALSE, "")

\* outcome of a tool invocation
Res(ret, escaped, log) == [ret |-> ret, escaped |-> escaped, log |-> log]

\* a call made on a dependency
Call(callee, arg) == [callee |-> callee, arg |-> arg]

\* placeholder for the value of an invocation that an exception left
NoReturn == "<raised>"

NoCall == [tool |-> "none"]

NoResult == Res(NoReturn, FALSE, <<>>)

----------------------------------------------------------------------------
(* graph_nodes.py:24-105, the quality-control tools *)

\* documents handed to the graders
MaxDocs == 2

\* binary_score of a grade; the field is a free string (graders.py:15-25)
Verdicts == {"yes", "no", "maybe"}

\* what one call of the relevance grader does
RelevanceOutcomes == Verdicts \cup {"raise"}

\* draft answers (qn below is the tools' argument `question`)
Generations == {"a1"}

\* a document: a mapping whose 'content' and 'page_content' are each a text
\* or empty/missing ("")
Doc(content, page_content) == [content |-> content, page_content |-> page_content]

Docs == { Doc(c, p) : c \in {"", "d1"}, p \in {"", "p1"} }

DocLists == UNION { [1..n -> Docs] : n \in 0..MaxDocs }

\* d.get("content", "") or d.get("page_content", "")
DocContent(d) == IF d.content # "" THEN d.content ELSE d.page_content

\* rewriter chains: None, one that raises, ones that return a text
RewriterChains ==
    {None, Dep(TRUE, TRUE, "")} \cup { Dep(TRUE, FALSE, o) : o \in {"rewritten", ""} }

\* hallucination and usefulness graders: None, one that raises, ones that
\* return a grade
Graders ==
    {None, Dep(TRUE, TRUE, "")} \cup { Dep(TRUE, FALSE, v) : v \in Verdicts }

\* a relevance grader with what each of its calls does, by position of the
\* graded document in the list
RelevanceGrader(present, outcomes) == [present |-> present, outcomes |-> outcomes]

RelevanceGraders(n) ==
    {RelevanceGrader(FALSE, <<>>)} \cup
    { RelevanceGrader(TRUE, o) : o \in [1..n -> RelevanceOutcomes] }

(* graph_nodes.py:24-37 *)
\* the chain is called outside a try block
rewrite_query_toolNoCatch(qn, rewriter_chain) ==
    IF ~rewriter_chain.present
    THEN Res(qn, FALSE, <<>>)
    ELSE IF rewriter_chain.raises
         THEN Res(NoReturn, TRUE, <<Call("rewriter_chain", qn)>>)
         ELSE Res(rewriter_chain.out, FALSE, <<Call("rewriter_chain", qn)>>)

rewrite_query_tool(qn, rewriter_chain) ==
    IF ~rewriter_chain.present
    THEN Res(qn, FALSE, <<>>)
    ELSE IF rewriter_chain.raises
         THEN Res(qn, FALSE, <<Call("rewriter_chain", qn)>>)
         ELSE Res(rewriter_chain.out, FALSE, <<Call("rewriter_chain", qn)>>)

(* graph_nodes.py:50-63, the loop over the documents *)
RECURSIVE GradeEach(_, _, _, _)
\* documents i.. of the list: the ones kept and the grader calls made
\* keep(content, outcome): the document is appended to filtered_docs
GradeEach(documents, qn, outcomes, i) ==
    IF i > Len(documents)
    THEN [kept |-> <<>>, log |-> <<>>]
    ELSE LET d == documents[i]
             content == DocContent(d)
             rest == GradeEach(documents, qn, outcomes, i + 1)
         IN  IF content = ""
             THEN rest
             ELSE [kept |-> IF outcomes[i] \in {"yes", "raise"}
                            THEN <<d>> \o rest.kept ELSE rest.kept,
                   log |-> <<Call("relevance_grader", <<qn, content>>)>> \o rest.log]

RECURSIVE GradeEachWith(_, _, _, _, _)
\* the same loop keeping the documents whose grader outcome is in keepOn
GradeEachWith(documents, qn, outcomes, i, keepOn) ==
    IF i > Len(documents)
    THEN [kept |-> <<>>, log |-> <<>>]
    ELSE LET d == documents[i]
             content == DocContent(d)
             rest == GradeEachWith(documents, qn, outcomes, i + 1, keepOn)
         IN  IF content = ""
             THEN rest
             ELSE [kept |-> IF outcomes[i] \in keepOn
                            THEN <<d>> \o rest.kept ELSE rest.kept,
                   log |-> <<Call("relevance_grader", <<qn, content>>)>> \o rest.log]

(* graph_nodes.py:40-66 *)
\* the comparison is inverted: the documents graded other than 'yes' are kept
grade_documents_toolInverted(documents, qn, relevance_grader) ==
    IF ~relevance_grader.present \/ documents = <<>>
    THEN Res(documents, FALSE, <<>>)
    ELSE LET g == GradeEachWith(documents, qn, relevance_grader.outcomes, 1,
                                {"no", "maybe", "raise"})
         IN  Res(g.kept, FALSE, g.log)

\* the except clause of a document does not append it
grade_documents_toolDropOnError(documents, qn, relevance_grader) ==
    IF ~relevance_grader.present \/ documents = <<>>
    THEN Res(documents, FALSE, <<>>)
    ELSE LET g == GradeEachWith(documents, qn, relevance_grader.outcomes, 1, {"yes"})
         IN  Res(g.kept, FALSE, g.log)

RECURSIVE GradeEachUntested(_, _, _, _)
\* the same loop without the test of the text: every document is graded
GradeEachUntested(documents, qn, outcomes, i) ==
    IF i > Len(documents)
    THEN [kept |-> <<>>, log |-> <<>>]
    ELSE LET d == documents[i]
             rest == GradeEachUntested(documents, qn, outcomes, i + 1)
         IN  [kept |-> IF outcomes[i] \in {"yes", "raise"}
                       THEN <<d>> \o rest.kept ELSE rest.kept,
              log |-> <<Call("relevance_grader", <<qn, DocContent(d)>>)>> \o rest.log]

\* documents without a text are handed to the grader like the others
grade_documents_toolGradeEmpty(documents, qn, relevance_grader) ==
    IF ~relevance_grader.present \/ documents = <<>>
    THEN Res(documents, FALSE, <<>>)
    ELSE LET g == GradeEachUntested(documents, qn, relevance_grader.outcomes, 1)
         IN  Res(g.kept, FALSE, g.log)

grade_documents_tool(documents, qn, relevance_grader) ==
    IF ~relevance_grader.present \/ documents = <<>>
    THEN Res(documents, FALSE, <<>>)
    ELSE LET g == GradeEach(documents, qn, relevance_grader.outcomes, 1)
         IN  Res(g.kept, FALSE, g.log)

\* doc_context: the non-empty contents of the documents, in order
DocContext(documents) ==
    LET contents == [i \in 1..Len(documents) |-> DocContent(documents[i])]
    IN  SelectSeq(contents, LAMBDA c : c # "")

(* graph_nodes.py:69-105 *)
\* the usefulness check runs before the hallucination check
grade_answer_toolUsefulnessFirst(generation, documents, qn, hallucination_grader, usefulness_grader) ==
    LET hcall == Call("hallucination_grader", <<DocContext(documents), generation>>)
        ucall == Call("usefulness_grader", <<qn, generation>>)
    IN  IF ~hallucination_grader.present \/ ~usefulness_grader.present
        THEN Res("utile", FALSE, <<>>)
        ELSE IF usefulness_grader.raises
        THEN Res("utile", FALSE, <<ucall>>)
        ELSE IF usefulness_grader.out = "no"
        THEN Res("non utile", FALSE, <<ucall>>)
        ELSE IF hallucination_grader.raises
        THEN Res("utile", FALSE, <<ucall, hcall>>)
        ELSE IF hallucination_grader.out = "no"
        THEN Res("non supportato", FALSE, <<ucall, hcall>>)
        ELSE Res("utile", FALSE, <<ucall, hcall>>)

\* the usefulness check is missing
grade_answer_toolNoUsefulness(generation, documents, qn, hallucination_grader, usefulness_grader) ==
    LET hcall == Call("hallucination_grader", <<DocContext(documents), generation>>)
    IN  IF ~hallucination_grader.present \/ ~usefulness_grader.present
        THEN Res("utile", FALSE, <<>>)
        ELSE IF hallucination_grader.raises
        THEN Res("utile", FALSE, <<hcall>>)
        ELSE IF hallucination_grader.out = "no"
        THEN Res("non supportato", FALSE, <<hcall>>)
        ELSE Res("utile", FALSE, <<hcall>>)

\* only a missing hallucination grader is tested, and the checks run outside
\* a try block
grade_answer_toolFailClosed(generation, documents, qn, hallucination_grader, usefulness_grader) ==
    LET hcall == Call("hallucination_grader", <<DocContext(documents), generation>>)
        ucall == Call("usefulness_grader", <<qn, generation>>)
    IN  IF ~hallucination_grader.present
        THEN Res("utile", FALSE, <<>>)
        ELSE IF hallucination_grader.raises
        THEN Res(NoReturn, TRUE, <<hcall>>)
        ELSE IF hallucination_grader.out = "no"
        THEN Res("non supportato", FALSE, <<hcall>>)
        ELSE IF ~usefulness_grader.present
        THEN Res("utile", FALSE, <<hcall>>)
        ELSE IF usefulness_grader.raises
        THEN Res(NoReturn, TRUE, <<hcall, ucall>>)
        ELSE IF usefulness_grader.out = "no"
        THEN Res("non utile", FALSE, <<hcall, ucall>>)
        ELSE Res("utile", FALSE, <<hcall, ucall>>)

\* a usefulness verdict other than 'yes' and 'no' is returned as it is
grade_answer_toolEchoVerdict(generation, documents, qn, hallucination_grader, usefulness_grader) ==
    LET hcall == Call("hallucination_grader", <<DocContext(documents), generation>>)
        ucall == Call("usefulness_grader", <<qn, generation>>)
    IN  IF ~hallucination_grader.present \/ ~usefulness_grader.present
        THEN Res("utile", FALSE, <<>>)
        ELSE IF hallucination_grader.raises
        THEN Res("utile", FALSE, <<hcall>>)
        ELSE IF hallucination_grader.out = "no"
        THEN Res("non supportato", FALSE, <<hcall>>)
        ELSE IF usefulness_grader.raises
        THEN Res("utile", FALSE, <<hcall, ucall>>)
        ELSE IF usefulness_grader.out = "no"
        THEN Res("non utile", FALSE, <<hcall, ucall>>)
        ELSE IF usefulness_grader.out = "yes"
        THEN Res("utile", FALSE, <<hcall, ucall>>)
        ELSE Res(usefulness_grader.out, FALSE, <<hcall, ucall>>)

grade_answer_tool(generation, documents, qn, hallucination_grader, usefulness_grader) ==
    LET hcall == Call("hallucination_grader", <<DocContext(documents), generation>>)
        ucall == Call("usefulness_grader", <<qn, generation>>)
    IN  IF ~hallucination_grader.present \/ ~usefulness_grader.present
        THEN Res("utile", FALSE, <<>>)
        ELSE IF hallucination_grader.raises
        THEN Res("utile", FALSE, <<hcall>>)
        ELSE IF hallucination_grader.out = "no"
        THEN Res("non supportato", FALSE, <<hcall>>)
        ELSE IF usefulness_grader.raises
        THEN Res("utile", FALSE, <<hcall, ucall>>)
        ELSE IF usefulness_grader.out = "no"
        THEN Res("non utile", FALSE, <<hcall, ucall>>)
        ELSE Res("utile", FALSE, <<hcall, ucall>>)

----------------------------------------------------------------------------
(* graph_nodes.py:108-303, the retrieval tools *)

\* matches one index search returns
MaxHits == 2

\* entities in the graph store
MaxStore == 6

\* graph_nodes.py:212, LIMIT of the fallback query
FallbackLimit == 5

\* a dictionary key that is absent
Missing == "<missing>"

\* dict.get(key, "")
Get(value) == IF value = Missing THEN "" ELSE value

\* texts of the store and of structured queries are sequences of characters
ToLowerChar(c) == CASE c = "G" -> "g" [] c = "X" -> "x" [] OTHER -> c

toLower(text) == [i \in 1..Len(text) |-> ToLowerChar(text[i])]

\* text CONTAINS part
Contains(text, part) ==
    \E i \in 1..(Len(text) - Len(part) + 1) :
        SubSeq(text, i, i + Len(part) - 1) = part

Entity(type, name, description) ==
    [type |-> type, name |-> name, description |-> description]

Entities ==
    { Entity("Ente", <<"G", "d">>, <<"x">>),
      Entity("Ente", <<"x">>, <<"x">>),
      Entity("Norma", <<"d">>, <<"a", "g">>) }

Stores == UNION { [1..n -> Entities] : n \in 0..MaxStore }

StructuredQueries == { <<"g">>, <<"X">>, <<"z">> }

\* queries of the search tools
SearchQueries == {"q1"}

\* graph_nodes.py:207-213, the fallback query evaluated by the store
FallbackMatches(st, query) ==
    SelectSeq(st, LAMBDA e :
        \/ Contains(toLower(e.name), toLower(query))
        \/ Contains(toLower(e.description), toLower(query)))

FallbackQuery(st, query) ==
    LET m == FallbackMatches(st, query)
    IN  SubSeq(m, 1, IF Len(m) < FallbackLimit THEN Len(m) ELSE FallbackLimit)

\* chatbot.py:119-126, the text-to-query chain: the Cypher it generates and
\* runs (none when the translation fails), whether invoke raises, its answer
Chain(present, cypher, raises, out) ==
    [present |-> present, cypher |-> cypher, raises |-> raises, out |-> out]

NoChain == Chain(FALSE, "none", FALSE, "")

Chains ==
    {NoChain, Chain(TRUE, "none", TRUE, "")} \cup
    { Chain(TRUE, c, r, "r1") : c \in {"MATCH", "CREATE", "DETACH DELETE"}, r \in BOOLEAN }

\* the store after the chain has run the Cypher it generated
RunCypher(st, cypher) ==
    CASE cypher = "CREATE"        -> Append(st, Entity("Ente", <<"z">>, <<"z">>))
      [] cypher = "DETACH DELETE" -> <<>>
      [] OTHER                    -> st

\* the graph handle of a tool: None, or a handle whose query raises or answers
Graphs == {None, Dep(TRUE, TRUE, ""), Dep(TRUE, FALSE, "")}

(* graph_nodes.py:191-202 *)
\* the first blocking call of structured_query_tool: the guard and
\* graph_qa_chain.invoke. done says whether the tool returns here; when it
\* does not, the except clause of lines 203-215 is still to run
structured_query_chain(query, graph_qa_chain, graph, st) ==
    IF ~graph_qa_chain.present /\ ~graph.present
    THEN [done |-> TRUE, res |-> Res(<<>>, FALSE, <<>>), store |-> st]
    ELSE IF ~graph_qa_chain.present
    \* calling invoke on None raises before any call is made
    THEN [done |-> FALSE, res |-> Res(<<>>, FALSE, <<>>), store |-> st]
    ELSE LET st1 == RunCypher(st, graph_qa_chain.cypher)
             ccalls == <<Call("graph_qa_chain.invoke", query)>>
         IN  IF ~graph_qa_chain.raises
             THEN [done |-> TRUE,
                   res |-> Res(<<[question |-> query, result |-> graph_qa_chain.out]>>,
                               FALSE, ccalls),
                   store |-> st1]
             ELSE [done |-> FALSE, res |-> Res(<<>>, FALSE, ccalls), store |-> st1]

(* graph_nodes.py:203-221 *)
\* the second blocking call: the fallback graph.query of the except clause,
\* on the store as it is when the query runs
structured_query_fallback(query, graph, ccalls, st) ==
    LET gcall == Call("graph.query", <<"fallback", query>>)
    IN  IF ~graph.present
        THEN [res |-> Res(<<>>, FALSE, ccalls), store |-> st]
        ELSE IF graph.raises
        THEN [res |-> Res(<<>>, FALSE, Append(ccalls, gcall)), store |-> st]
        ELSE [res |-> Res(FallbackQuery(st, query), FALSE, Append(ccalls, gcall)),
              store |-> st]

(* graph_nodes.py:175-223; the outcome and the store afterwards *)
\* without the fallback of the except clause
structured_query_toolNoFallback(query, graph_qa_chain, graph, st) ==
    IF ~graph_qa_chain.present /\ ~graph.present
    THEN [res |-> Res(<<>>, FALSE, <<>>), store |-> st]
    ELSE IF ~graph_qa_chain.present
    THEN [res |-> Res(<<>>, FALSE, <<>>), store |-> st]
    ELSE LET st1 == RunCypher(st, graph_qa_chain.cypher)
             ccall == Call("graph_qa_chain.invoke", query)
         IN  IF ~graph_qa_chain.raises
             THEN [res |-> Res(<<[question |-> query, result |-> graph_qa_chain.out]>>,
                               FALSE, <<ccall>>),
                   store |-> st1]
             ELSE [res |-> Res(<<>>, FALSE, <<ccall>>), store |-> st1]

structured_query_tool(query, graph_qa_chain, graph, st) ==
    LET c == structured_query_chain(query, graph_qa_chain, graph, st)
    IN  IF c.done
        THEN [res |-> c.res, store |-> c.store]
        ELSE structured_query_fallback(query, graph, c.res.log, c.store)

\* a match of the index: page_content and metadata ('id' and 'source', each
\* possibly absent)
Match(page_content, id, source) ==
    [page_content |-> page_content, metadata |-> [id |-> id, source |-> source]]

Matches ==
    { Match("c1", i, src) : i \in {Missing, "doc1"}, src \in {Missing, "", "src1"} }

\* what graph.query answers for the related-context query of one match
RelatedOutcomes ==
    { [raises |-> TRUE, records |-> <<>>],
      [raises |-> FALSE, records |-> <<>>],
      [raises |-> FALSE, records |-> <<"rel1">>],
      [raises |-> FALSE, records |-> <<"rel1", "rel2">>] }

\* a vector store handed to a tool factory: None, or a store whose search
\* raises or answers with hits, whatever k it is asked for (the stores of
\* tests/test_graph_nodes.py)
VectorStore(present, raises, hits) ==
    [present |-> present, raises |-> raises, hits |-> hits, limit |-> FALSE]

(* chatbot.py:131-181 *)
\* the vector store of the chatbot, a Neo4jVector on the index of the
\* database: hits are the nodes of the index that match the query, best
\* first, and its search ends in LIMIT k
Neo4jVector(hits) ==
    [present |-> TRUE, raises |-> FALSE, hits |-> hits, limit |-> TRUE]

(* graph_nodes.py:130 *)
search_kwargs == [k |-> 3]

(* graph_nodes.py:133, 290 *)
\* vector_store.similarity_search(query, k): what the store answers. The
\* tools take the answer as it is; a Neo4jVector answers with the k best
\* matches, or with all when fewer, any other store with all its hits
similarity_search(vector_store, k) ==
    IF vector_store.limit
    THEN SubSeq(vector_store.hits, 1,
                IF Len(vector_store.hits) < k THEN Len(vector_store.hits) ELSE k)
    ELSE vector_store.hits

VectorStores ==
    {VectorStore(FALSE, FALSE, <<>>), VectorStore(TRUE, TRUE, <<>>)} \cup
    { VectorStore(TRUE, FALSE, h) : h \in UNION { [1..n -> Matches] : n \in 0..MaxHits } }

\* a graph handle for the enrichment: None, or what its query answers for
\* each match, by position
EnrichGraph(present, related) == [present |-> present, related |-> related]

EnrichGraphs(n) ==
    {EnrichGraph(FALSE, <<>>)} \cup
    { EnrichGraph(TRUE, r) : r \in [1..n -> RelatedOutcomes] }

\* doc.metadata.get('id') or doc.metadata.get('source', '')
DocId(metadata) ==
    IF metadata.id # Missing /\ metadata.id # ""
    THEN metadata.id
    ELSE Get(metadata.source)

\* related_context is the last record the graph returned
EnhanceDocLastRecord(doc, graph, i) ==
    LET base == [content |-> doc.page_content, metadata |-> doc.metadata]
        doc_id == DocId(doc.metadata)
    IN  IF graph.present /\ doc_id # ""
        THEN LET o == graph.related[i]
                 gcall == Call("graph.query", <<"related", doc_id>>)
             IN  IF ~o.raises /\ o.records # <<>>
                 THEN [doc |-> [content |-> doc.page_content, metadata |-> doc.metadata,
                                related_context |-> o.records[Len(o.records)]],
                       log |-> <<gcall>>]
                 ELSE [doc |-> base, log |-> <<gcall>>]
        ELSE [doc |-> base, log |-> <<>>]

(* graph_nodes.py:137-164, one match *)
EnhanceDoc(doc, graph, i) ==
    LET base == [content |-> doc.page_content, metadata |-> doc.metadata]
        doc_id == DocId(doc.metadata)
    IN  IF graph.present /\ doc_id # ""
        THEN LET o == graph.related[i]
                 gcall == Call("graph.query", <<"related", doc_id>>)
             IN  IF ~o.raises /\ o.records # <<>>
                 THEN [doc |-> [content |-> doc.page_content, metadata |-> doc.metadata,
                                related_context |-> o.records[1]],
                       log |-> <<gcall>>]
                 ELSE [doc |-> base, log |-> <<gcall>>]
        ELSE [doc |-> base, log |-> <<>>]

RECURSIVE EnhanceAll(_, _, _)
EnhanceAll(results, graph, i) ==
    IF i > Len(results)
    THEN [docs |-> <<>>, log |-> <<>>]
    ELSE LET e == EnhanceDoc(results[i], graph, i)
             rest == EnhanceAll(results, graph, i + 1)
         IN  [docs |-> <<e.doc>> \o rest.docs, log |-> e.log \o rest.log]

(* graph_nodes.py:108-173 *)
\* the test of the vector store is missing and the search is outside the try
hybrid_search_toolNoGuard(query, vector_store, graph) ==
    LET scall == Call("vector_store.similarity_search", <<query, search_kwargs.k>>)
    IN  IF ~vector_store.present
        THEN Res(NoReturn, TRUE, <<>>)
        ELSE IF vector_store.raises
        THEN Res(NoReturn, TRUE, <<scall>>)
        ELSE LET e == EnhanceAll(similarity_search(vector_store, search_kwargs.k), graph, 1)
             IN  Res(e.docs, FALSE, <<scall>> \o e.log)

\* an exception of the related-context query reaches the outer except clause
hybrid_search_toolEnrichUncaught(query, vector_store, graph) ==
    LET scall == Call("vector_store.similarity_search", <<query, search_kwargs.k>>)
    IN  IF ~vector_store.present
        THEN Res(<<>>, FALSE, <<>>)
        ELSE IF vector_store.raises
        THEN Res(<<>>, FALSE, <<scall>>)
        ELSE LET results == similarity_search(vector_store, search_kwargs.k)
                 e == EnhanceAll(results, graph, 1)
             IN  IF \E i \in 1..Len(results) :
                        /\ graph.present
                        /\ DocId(results[i].metadata) # ""
                        /\ graph.related[i].raises
                 THEN Res(<<>>, FALSE, <<scall>> \o e.log)
                 ELSE Res(e.docs, FALSE, <<scall>> \o e.log)

\* search_kwargs is not handed to the search, which then uses its default k
hybrid_search_toolDefaultK(query, vector_store, graph) ==
    LET scall == Call("vector_store.similarity_search", <<query>>)
    IN  IF ~vector_store.present
        THEN Res(<<>>, FALSE, <<>>)
        ELSE IF vector_store.raises
        THEN Res(<<>>, FALSE, <<scall>>)
        ELSE LET e == EnhanceAll(similarity_search(vector_store, 4), graph, 1)
             IN  Res(e.docs, FALSE, <<scall>> \o e.log)

hybrid_search_tool(query, vector_store, graph) ==
    LET scall == Call("vector_store.similarity_search", <<query, search_kwargs.k>>)
    IN  IF ~vector_store.present
        THEN Res(<<>>, FALSE, <<>>)
        ELSE IF vector_store.raises
        THEN Res(<<>>, FALSE, <<scall>>)
        ELSE LET e == EnhanceAll(similarity_search(vector_store, search_kwargs.k), graph, 1)
             IN  Res(e.docs, FALSE, <<scall>> \o e.log)

\* a result of the web-search provider: each field a text or absent
WebResult(content, url, title) == [content |-> content, url |-> url, title |-> title]

WebResults ==
    { WebResult(c, u, "t1") : c \in {Missing, "w1"}, u \in {Missing, "u1"} }

\* a web-search client: None, or a client whose search raises or returns a
\* response with or without the key 'results'
Tavily(present, raises, has_results, results) ==
    [present |-> present, raises |-> raises, has_results |-> has_results,
     results |-> results]

Tavilys ==
    {Tavily(FALSE, FALSE, FALSE, <<>>), Tavily(TRUE, TRUE, FALSE, <<>>),
     Tavily(TRUE, FALSE, FALSE, <<>>)} \cup
    { Tavily(TRUE, FALSE, TRUE, r) : r \in UNION { [1..n -> WebResults] : n \in 0..MaxHits } }

(* graph_nodes.py:225-268 *)
\* the search is outside the try block
web_search_toolNoCatch(query, tavily_client) ==
    LET scall == Call("tavily_client.search", <<query, 3, "advanced">>)
    IN  IF ~tavily_client.present
        THEN Res(<<>>, FALSE, <<>>)
        ELSE IF tavily_client.raises
        THEN Res(NoReturn, TRUE, <<scall>>)
        ELSE IF ~tavily_client.has_results
        THEN Res(<<>>, FALSE, <<scall>>)
        ELSE Res([i \in 1..Len(tavily_client.results) |->
                    LET r == tavily_client.results[i]
                    IN  WebResult(Get(r.content), Get(r.url), Get(r.title))],
                 FALSE, <<scall>>)

\* the fields are read with result[key]: a missing field raises, which the
\* except clause turns into the empty list
web_search_toolNoDefault(query, tavily_client) ==
    LET scall == Call("tavily_client.search", <<query, 3, "advanced">>)
    IN  IF ~tavily_client.present
        THEN Res(<<>>, FALSE, <<>>)
        ELSE IF tavily_client.raises
        THEN Res(<<>>, FALSE, <<scall>>)
        ELSE IF ~tavily_client.has_results
        THEN Res(<<>>, FALSE, <<scall>>)
        ELSE IF \E i \in 1..Len(tavily_client.results) :
                    Missing \in { tavily_client.results[i].content,
                                  tavily_client.results[i].url,
                                  tavily_client.results[i].title }
        THEN Res(<<>>, FALSE, <<scall>>)
        ELSE Res([i \in 1..Len(tavily_client.results) |->
                    LET r == tavily_client.results[i]
                    IN  WebResult(r.content, r.url, r.title)],
                 FALSE, <<scall>>)

web_search_tool(query, tavily_client) ==
    LET scall == Call("tavily_client.search", <<query, 3, "advanced">>)
    IN  IF ~tavily_client.present
        THEN Res(<<>>, FALSE, <<>>)
        ELSE IF tavily_client.raises
        THEN Res(<<>>, FALSE, <<scall>>)
        ELSE IF ~tavily_client.has_results
        THEN Res(<<>>, FALSE, <<scall>>)
        ELSE Res([i \in 1..Len(tavily_client.results) |->
                    LET r == tavily_client.results[i]
                    IN  WebResult(Get(r.content), Get(r.url), Get(r.title))],
                 FALSE, <<scall>>)

\* filter mappings of the metadata-filter tool
Filters == { "document_type=Provvedimento" }

(* graph_nodes.py:270-303 *)
metadata_filter_tool(query, filter_dict, vector_store) ==
    LET scall == Call("vector_store.similarity_search", <<query, 3, filter_dict>>)
    IN  IF ~vector_store.present
        THEN Res(<<>>, FALSE, <<>>)
        ELSE IF vector_store.raises
        THEN Res(<<>>, FALSE, <<scall>>)
        ELSE LET results == similarity_search(vector_store, 3)
             IN  Res([i \in 1..Len(results) |->
                        [content |-> results[i].page_content,
                         metadata |-> results[i].metadata]],
                     FALSE, <<scall>>)

\* no list of documents has been handed to the grading tool
NoHeap == [list |-> <<>>, objs |-> <<>>, filtered |-> <<>>, runs |-> <<>>]

\* no assistant turn is under execution
NoTurn == [calls |-> <<>>]

\* process_document_json has not been called
NoIngest ==
    [source_document |-> "<none>", check |-> "none", texts |-> 0,
     processed |-> <<>>, calls |-> 0]

----------------------------------------------------------------------------
(* Spec: ask() over the compiled workflow *)

Init ==
    /\ pc = "idle"
    /\ question = ""
    /\ messages = <<>>
    /\ step = 0
    /\ raised = "none"
    /\ answer = NoAnswer
    /\ propagated = FALSE
    /\ asked = 0
    /\ tcall = NoCall
    /\ tres = NoResult
    /\ store = <<>>
    /\ heap = NoHeap
    /\ turn = NoTurn
    /\ db = {}
    /\ ingest = NoIngest

\* ask(question): build_workflow succeeded, the history is seeded and
\* app.invoke starts at the entry point "agent"
Ask(q) ==
    /\ pc \in {"idle", "returned"}
    /\ asked < MaxSessions
    /\ pc' = "agent"
    /\ question' = q
    /\ messages' = InitialState(q)
    /\ step' = 0
    /\ raised' = "none"
    /\ asked' = asked + 1
    /\ UNCHANGED <<answer, propagated>>
    /\ UNCHANGED <<toolVars, extVars>>

\* ask(question): build_workflow raises
AskBuildFails(q) ==
    /\ pc \in {"idle", "returned"}
    /\ asked < MaxSessions
    /\ pc' = "raised"
    /\ question' = q
    /\ messages' = <<>>
    /\ step' = 0
    /\ raised' = "build"
    /\ asked' = asked + 1
    /\ UNCHANGED <<answer, propagated>>
    /\ UNCHANGED <<toolVars, extVars>>

\* node "agent" followed by the conditional edge
AgentNode ==
    /\ pc = "agent"
    /\ step < RecursionLimit
    /\ \E response \in ModelResponses(messages) :
         /\ messages' = add_messages(messages, <<response>>)
         /\ pc' = tools_condition(messages')
    /\ step' = step + 1
    /\ UNCHANGED <<question, raised, answer, propagated, asked>>
    /\ UNCHANGED <<toolVars, extVars>>

\* node "agent": the model call raises
AgentRaises ==
    /\ pc = "agent"
    /\ step < RecursionLimit
    /\ pc' = "raised"
    /\ raised' = "model"
    /\ messages' = <<>>
    /\ UNCHANGED <<question, step, answer, propagated, asked>>
    /\ UNCHANGED <<toolVars, extVars>>

\* node "tools" followed by the edge tools -> agent
ToolNode ==
    /\ pc = "tools"
    /\ step < RecursionLimit
    /\ \E results \in ToolResults(messages[Len(messages)].tool_calls) :
         /\ messages' = add_messages(messages, results)
         /\ pc' = AfterTools(results)
    /\ step' = step + 1
    /\ UNCHANGED <<question, raised, answer, propagated, asked>>
    /\ UNCHANGED <<toolVars, extVars>>

\* node "tools": the tool infrastructure raises
ToolRaises ==
    /\ pc = "tools"
    /\ step < RecursionLimit
    /\ pc' = "raised"
    /\ raised' = "tool"
    /\ messages' = <<>>
    /\ UNCHANGED <<question, step, answer, propagated, asked>>
    /\ UNCHANGED <<toolVars, extVars>>

\* app.invoke: a node is due although the run has used up its super-steps
RecursionLimitReached ==
    /\ pc \in {"agent", "tools"}
    /\ step >= RecursionLimit
    /\ pc' = "raised"
    /\ raised' = "recursion"
    /\ messages' = <<>>
    /\ UNCHANGED <<question, step, answer, propagated, asked>>
    /\ UNCHANGED <<toolVars, extVars>>

\* ask(): app.invoke returned final_state; the answer is extracted
ReturnAnswer ==
    /\ pc = "ended"
    /\ pc' = "returned"
    /\ answer' = ExtractAnswer(messages)
    /\ propagated' = FALSE
    /\ UNCHANGED <<question, messages, step, raised, asked>>
    /\ UNCHANGED <<toolVars, extVars>>

\* ask(): the except clause
ReturnError ==
    /\ pc = "raised"
    /\ pc' = "returned"
    /\ answer' = OnException(raised).answer
    /\ propagated' = OnException(raised).propagated
    /\ UNCHANGED <<question, messages, step, raised, asked>>
    /\ UNCHANGED <<toolVars, extVars>>

Next ==
    \/ \E q \in Questions : Ask(q)
    \/ \E q \in Questions : AskBuildFails(q)
    \/ AgentNode
    \/ AgentRaises
    \/ ToolNode
    \/ ToolRaises
    \/ RecursionLimitReached
    \/ ReturnAnswer
    \/ ReturnError

Spec == Init /\ [][Next]_vars

----------------------------------------------------------------------------
(* SpecAsk: ask() with build_workflow stubbed (tests/test_chatbot.py) *)

AbsentContent == "<absent>"

\* Messages a stub application may leave in its final state
StubMessages ==
    { Msg(shape, c # AbsentContent, role, c, <<>>, 0) :
        shape \in {"object", "mapping"},
        role \in {"user", "assistant"},
        c \in Contents \cup {AbsentContent} }

\* final_state["messages"] of a stub application
StubFinalStates ==
    UNION { [1..n -> StubMessages] : n \in 0..MaxStubLen }

\* ask(question): the stub's invoke returns a final state
AskStub(q) ==
    /\ pc \in {"idle", "returned"}
    /\ asked < MaxSessions
    /\ \E final \in StubFinalStates : messages' = final
    /\ pc' = "ended"
    /\ question' = q
    /\ step' = 0
    /\ raised' = "none"
    /\ asked' = asked + 1
    /\ UNCHANGED <<answer, propagated>>
    /\ UNCHANGED <<toolVars, extVars>>

NextAsk ==
    \/ \E q \in Questions : AskStub(q)
    \/ \E q \in Questions : AskBuildFails(q)
    \/ ReturnAnswer
    \/ ReturnError

SpecAsk == Init /\ [][NextAsk]_vars

----------------------------------------------------------------------------
(* SpecTools: the tools of graph_nodes.py, each invoked on its own with any *)
(* arguments and any behaviour of its dependencies (the graph store is      *)
(* empty; SpecStore populates it)                                           *)

InitTools == Init

InvokeRewrite ==
    /\ tcall = NoCall
    /\ \E q \in Questions, chain \in RewriterChains :
         /\ tcall' = [tool |-> "rewrite_query_tool", question |-> q,
                      rewriter_chain |-> chain]
         /\ tres' = rewrite_query_tool(q, chain)
    /\ UNCHANGED <<store, loopVars, extVars>>

InvokeGradeDocuments ==
    /\ tcall = NoCall
    /\ \E documents \in DocLists, q \in Questions :
         \E grader \in RelevanceGraders(Len(documents)) :
            /\ tcall' = [tool |-> "grade_documents_tool", documents |-> documents,
                         question |-> q, relevance_grader |-> grader]
            /\ tres' = grade_documents_tool(documents, q, grader)
    /\ UNCHANGED <<store, loopVars, extVars>>

InvokeGradeAnswer ==
    /\ tcall = NoCall
    /\ \E g \in Generations, documents \in DocLists, q \in Questions,
          hg \in Graders, ug \in Graders :
         /\ tcall' = [tool |-> "grade_answer_tool", generation |-> g,
                      documents |-> documents, question |-> q,
                      hallucination_grader |-> hg, usefulness_grader |-> ug]
         /\ tres' = grade_answer_tool(g, documents, q, hg, ug)
    /\ UNCHANGED <<store, loopVars, extVars>>

InvokeHybridSearch ==
    /\ tcall = NoCall
    /\ \E query \in SearchQueries, vs \in VectorStores :
         \E graph \in EnrichGraphs(Len(vs.hits)) :
            /\ tcall' = [tool |-> "hybrid_search_tool", query |-> query,
                         vector_store |-> vs, graph |-> graph]
            /\ tres' = hybrid_search_tool(query, vs, graph)
    /\ UNCHANGED <<store, loopVars, extVars>>

InvokeStructuredQuery ==
    /\ tcall = NoCall
    /\ \E query \in StructuredQueries, chain \in Chains, graph \in Graphs :
         LET o == structured_query_tool(query, chain, graph, store) IN
            /\ tcall' = [tool |-> "structured_query_tool", query |-> query,
                         graph_qa_chain |-> chain, graph |-> graph]
            /\ tres' = o.res
            /\ store' = o.store
    /\ UNCHANGED <<loopVars, extVars>>

InvokeWebSearch ==
    /\ tcall = NoCall
    /\ \E query \in SearchQueries, client \in Tavilys :
         /\ tcall' = [tool |-> "web_search_tool", query |-> query,
                      tavily_client |-> client]
         /\ tres' = web_search_tool(query, client)
    /\ UNCHANGED <<store, loopVars, extVars>>

InvokeMetadataFilter ==
    /\ tcall = NoCall
    /\ \E query \in SearchQueries, f \in Filters, vs \in VectorStores :
         /\ tcall' = [tool |-> "metadata_filter_tool", query |-> query,
                      filter_dict |-> f, vector_store |-> vs]
         /\ tres' = metadata_filter_tool(query, f, vs)
    /\ UNCHANGED <<store, loopVars, extVars>>

NextTools ==
    \/ InvokeRewrite
    \/ InvokeGradeDocuments
    \/ InvokeGradeAnswer
    \/ InvokeHybridSearch
    \/ InvokeStructuredQuery
    \/ InvokeWebSearch
    \/ InvokeMetadataFilter

SpecTools == InitTools /\ [][NextTools]_vars

----------------------------------------------------------------------------
(* SpecStore: the structured-query tool invoked over a populated graph store *)

InitStore ==
    /\ pc = "idle"
    /\ question = ""
    /\ messages = <<>>
    /\ step = 0
    /\ raised = "none"
    /\ answer = NoAnswer
    /\ propagated = FALSE
    /\ asked = 0
    /\ tcall = NoCall
    /\ tres = NoResult
    /\ store \in Stores
    /\ heap = NoHeap
    /\ turn = NoTurn
    /\ db = {}
    /\ ingest = NoIngest

NextStore == InvokeStructuredQuery

SpecStore == InitStore /\ [][NextStore]_vars

----------------------------------------------------------------------------
(* Properties *)

Last(msgs) == msgs[Len(msgs)]

IsPrefix(s, t) == Len(s) <= Len(t) /\ SubSeq(t, 1, Len(s)) = s

\* a tool-call-free assistant Message
IsFinalAnswer(m) == m.role = "assistant" /\ Len(m.tool_calls) = 0

\* the ToolResults of history msgs correlated to call identifier id
Correlated(msgs, id) ==
    { j \in DOMAIN msgs : msgs[j].role = "tool" /\ msgs[j].tool_call_id = id }

\* C1: Termination. A run that has used up its iteration cap without a model
\* or tool failure has reached a terminal, tool-call-free assistant Message.
C1_TerminatesWithinCap ==
    (step >= RecursionLimit /\ raised = "none" /\ pc # "idle")
        => (pc \in {"ended", "returned"} /\ IsFinalAnswer(Last(messages)))

\* C2: after a Reasoning step the loop goes to executing-tools iff the response
\* holds at least one tool-call request and ends iff it holds none; the loop
\* ends only from the Reasoning state, and at the end the last Message is the
\* tool-call-free assistant Message.
C2_BranchOnToolCalls ==
    /\ [][ (pc = "agent" /\ step' = step + 1) =>
              /\ pc' \in {"tools", "ended"}
              /\ (pc' = "tools" <=> Len(Last(messages').tool_calls) >= 1)
              /\ (pc' = "ended" <=> Len(Last(messages').tool_calls) = 0) ]_vars
    /\ [][ (pc' = "ended" /\ pc # "ended") => pc = "agent" ]_vars
    /\ [](pc = "ended" => IsFinalAnswer(Last(messages)))

C2_Witness ==
    /\ pc = "ended"
    /\ Len(messages) >= 4
    /\ messages[2].content = "a1"
    /\ Len(messages[2].tool_calls) = 2

\* C3: every completed executing-tools step hands control to the Reasoning
\* Node and to no other state, whichever tools ran and whatever they returned.
C3_ToolsThenReasoning ==
    [][ (pc = "tools" /\ step' = step + 1) => pc' = "agent" ]_vars

C3_Witness ==
    /\ pc = "agent"
    /\ step = 2
    /\ Last(messages).role = "tool"
    /\ Last(messages).content = "non supportato"

\* C4: whenever the Reasoning Node is about to be invoked, every
\* ToolCallRequest of every earlier assistant Message has exactly one
\* ToolResult with its call identifier in the history, appended after it.
C4_OneResultPerRequest ==
    pc = "agent" =>
        \A i \in DOMAIN messages :
            \A k \in DOMAIN messages[i].tool_calls :
                LET id == messages[i].tool_calls[k].id IN
                /\ Cardinality(Correlated(messages, id)) = 1
                /\ \A j \in Correlated(messages, id) : j > i

C4_Witness ==
    /\ pc = "agent"
    /\ step = 2
    /\ Len(messages[2].tool_calls) = 2
    /\ Len(messages) = 4

\* C5: the history is append-only: a completed loop step (Reasoning or
\* Tool-Execution) leaves the previous history as a prefix of the new one, and
\* the first Message stays the user's question.
C5_AppendOnly ==
    /\ [][ (pc \in {"agent", "tools"} /\ pc' \in {"agent", "tools", "ended"})
              => IsPrefix(messages, messages') ]_vars
    /\ [](pc \in {"agent", "tools", "ended"} =>
             (Len(messages) >= 1 /\ messages[1] = HumanMessage(question)))

C5_Witness ==
    /\ pc = "tools"
    /\ step = 3
    /\ Len(messages) >= 5

\* C6: when the run ends with a non-empty history whose last Message is a
\* structured message with a content attribute or a plain mapping with a
\* 'content' key, ask returns exactly that content.
C6_ReturnsLastContent ==
    (pc = "returned" /\ raised = "none" /\ messages # <<>> /\ Last(messages).has_content)
        => answer = Last(messages).content

C6_Witness ==
    /\ pc = "returned"
    /\ raised = "none"
    /\ Len(messages) = 2
    /\ Last(messages).shape = "mapping"
    /\ Last(messages).has_content
    /\ answer = "a1"

\* C7: no exception leaves ask: when building the workflow or running the
\* loop raised, ask returned the generic error string.
C7_NeverPropagates ==
    /\ ~propagated
    /\ (pc = "returned" /\ raised # "none") => answer = GenericErrorMessage

C7_Witness ==
    /\ pc = "returned"
    /\ raised = "recursion"
    /\ answer = GenericErrorMessage

\* C8: a run that finishes with an empty Message list makes ask return the
\* degraded-service message, which differs from the generic error message.
C8_EmptyHistoryDegraded ==
    /\ DegradedMessage # GenericErrorMessage
    /\ (pc = "returned" /\ raised = "none" /\ messages = <<>>) => answer = DegradedMessage

C8_Witness ==
    /\ pc = "returned"
    /\ raised = "none"
    /\ messages = <<>>
    /\ answer = DegradedMessage

\* C9 as stated: ask("") returns the degraded-service message whatever the
\* model answers.
C9_EmptyQuestionDegraded ==
    (pc = "returned" /\ raised = "none" /\ question = "") => answer = DegradedMessage

\* C9 amended: ask("") runs the loop on one user Message with empty content
\* and returns the content of the last Message of the final history.
C9_EmptyQuestionAnswered ==
    (pc = "returned" /\ raised = "none" /\ question = "")
        => /\ messages[1] = HumanMessage("")
           /\ IsFinalAnswer(Last(messages))
           /\ answer = Last(messages).content

C9_Witness ==
    /\ pc = "returned"
    /\ raised = "none"
    /\ question = ""
    /\ Len(messages) >= 4
    /\ answer = "a1"

\* C10: every call of ask starts its loop from exactly one user Message
\* holding that call's question, whatever earlier calls did.
C10_SessionsIsolated ==
    /\ [][ (pc \in {"idle", "returned"} /\ pc' = "agent")
              => messages' = <<HumanMessage(question')>> ]_vars
    /\ []((pc = "agent" /\ step = 0) => messages = <<HumanMessage(question)>>)

C10_Witness ==
    /\ pc = "agent"
    /\ step = 0
    /\ asked = 2
    /\ question = "q1"
    /\ answer = GenericErrorMessage

----------------------------------------------------------------------------
(* Properties of the tools *)

\* the elements of sequence s at the positions in I, in the order of s
SubSeqAt(s, I) ==
    LET F[i \in 0..Len(s)] ==
            IF i = 0 THEN <<>>
            ELSE IF i \in I THEN Append(F[i - 1], s[i]) ELSE F[i - 1]
    IN  F[Len(s)]

\* the callees of the calls an invocation made, in order
Callees(log) == [i \in 1..Len(log) |-> log[i].callee]

FailedOpen == ~tres.escaped /\ tres.log = <<>> /\ tres.ret = <<>>

\* C11: a retrieval tool whose backend is not configured returns the empty
\* list, raises nothing and calls no backend.
C11_NoBackendFailOpen ==
    /\ (tcall.tool = "hybrid_search_tool" /\ ~tcall.vector_store.present) => FailedOpen
    /\ (tcall.tool = "structured_query_tool" /\ ~tcall.graph_qa_chain.present
            /\ ~tcall.graph.present) => FailedOpen
    /\ (tcall.tool = "web_search_tool" /\ ~tcall.tavily_client.present) => FailedOpen
    /\ (tcall.tool = "metadata_filter_tool" /\ ~tcall.vector_store.present) => FailedOpen

C11_Witness ==
    /\ tcall.tool = "hybrid_search_tool"
    /\ ~tcall.vector_store.present
    /\ tcall.graph.present
    /\ tres.ret = <<>>
    /\ tres.log = <<>>

RetrievalTools ==
    {"hybrid_search_tool", "structured_query_tool", "web_search_tool",
     "metadata_filter_tool"}

\* C12: no exception of a backend call leaves a retrieval tool; when the
\* search call raises (for the structured-query tool: the chain fails and the
\* fallback is unavailable or raises too) the tool returns the empty list.
C12_BackendFailureFailOpen ==
    /\ tcall.tool \in RetrievalTools => ~tres.escaped
    /\ (tcall.tool \in {"hybrid_search_tool", "metadata_filter_tool"}
            /\ tcall.vector_store.present /\ tcall.vector_store.raises)
         => tres.ret = <<>>
    /\ (tcall.tool = "web_search_tool" /\ tcall.tavily_client.present
            /\ tcall.tavily_client.raises)
         => tres.ret = <<>>
    /\ (tcall.tool = "structured_query_tool"
            /\ (~tcall.graph_qa_chain.present \/ tcall.graph_qa_chain.raises)
            /\ (~tcall.graph.present \/ tcall.graph.raises))
         => tres.ret = <<>>

C12_Witness ==
    /\ tcall.tool = "web_search_tool"
    /\ tcall.tavily_client.present
    /\ tcall.tavily_client.raises
    /\ Callees(tres.log) = <<"tavily_client.search">>
    /\ tres.ret = <<>>
    /\ ~tres.escaped

\* C13: an invocation of the structured-query tool leaves the contents of the
\* graph store as they were.
C13_StoreNeverMutated ==
    [][ tcall'.tool = "structured_query_tool" => store' = store ]_vars

\* C14: when the text-to-query chain fails and a graph is available, the tool
\* returns the records of the substring-match fallback query, in their order
\* and unmodified, at most 5 of them; when the fallback raises too it returns
\* the empty list.
C14_FallbackRecords ==
    (tcall.tool = "structured_query_tool"
        /\ (~tcall.graph_qa_chain.present \/ tcall.graph_qa_chain.raises)
        /\ tcall.graph.present)
    => /\ ~tres.escaped
       /\ tres.log # <<>>
       /\ tres.log[Len(tres.log)] = Call("graph.query", <<"fallback", tcall.query>>)
       /\ IF tcall.graph.raises
          THEN tres.ret = <<>>
          ELSE /\ tres.ret = FallbackQuery(store, tcall.query)
               /\ Len(tres.ret) <= 5
               /\ \A i \in 1..Len(tres.ret) :
                     \/ Contains(toLower(tres.ret[i].name), toLower(tcall.query))
                     \/ Contains(toLower(tres.ret[i].description), toLower(tcall.query))

C14_Witness ==
    /\ tcall.tool = "structured_query_tool"
    /\ tcall.graph_qa_chain.present
    /\ tcall.graph_qa_chain.raises
    /\ tcall.graph.present
    /\ ~tcall.graph.raises
    /\ Len(FallbackMatches(store, tcall.query)) = 6
    /\ Len(tres.ret) = 5
    /\ tres.ret[1] = store[1]

BothGradersAvailable ==
    /\ tcall.tool = "grade_answer_tool"
    /\ tcall.hallucination_grader.present
    /\ tcall.usefulness_grader.present

\* C15: with both graders available and a hallucination verdict "no" the tool
\* returns "non supportato" whatever the usefulness grader would do, and the
\* usefulness grader is called only after the hallucination grader returned a
\* verdict other than "no".
C15_HallucinationFirst ==
    /\ (BothGradersAvailable /\ ~tcall.hallucination_grader.raises
            /\ tcall.hallucination_grader.out = "no")
         => (tres.ret = "non supportato"
             /\ Callees(tres.log) = <<"hallucination_grader">>)
    /\ (tcall.tool = "grade_answer_tool"
            /\ \E i \in 1..Len(tres.log) : tres.log[i].callee = "usefulness_grader")
         => (/\ Callees(tres.log) = <<"hallucination_grader", "usefulness_grader">>
             /\ ~tcall.hallucination_grader.raises
             /\ tcall.hallucination_grader.out # "no")

C15_Witness ==
    /\ BothGradersAvailable
    /\ ~tcall.hallucination_grader.raises
    /\ tcall.hallucination_grader.out = "no"
    /\ ~tcall.usefulness_grader.raises
    /\ tcall.usefulness_grader.out = "no"
    /\ tres.ret = "non supportato"

\* C16: with both graders available, not failing and answering 'yes' or 'no',
\* the tool returns "utile" exactly when the answer is grounded and useful and
\* "non utile" exactly when it is grounded but not useful.
C16_Taxonomy ==
    (BothGradersAvailable
        /\ ~tcall.hallucination_grader.raises /\ ~tcall.usefulness_grader.raises
        /\ tcall.hallucination_grader.out \in {"yes", "no"}
        /\ tcall.usefulness_grader.out \in {"yes", "no"})
    => /\ (tres.ret = "utile"
             <=> (tcall.hallucination_grader.out = "yes"
                  /\ tcall.usefulness_grader.out = "yes"))
       /\ (tres.ret = "non utile"
             <=> (tcall.hallucination_grader.out = "yes"
                  /\ tcall.usefulness_grader.out = "no"))

C16_Witness ==
    /\ BothGradersAvailable
    /\ ~tcall.hallucination_grader.raises
    /\ tcall.hallucination_grader.out = "yes"
    /\ ~tcall.usefulness_grader.raises
    /\ tcall.usefulness_grader.out = "no"
    /\ tres.ret = "non utile"

\* C17: with a grader unavailable the tool returns "utile" without calling a
\* grader; when a grader raises during the check it returns "utile" too and
\* raises nothing.
C17_AnswerGradingFailOpen ==
    /\ (tcall.tool = "grade_answer_tool"
            /\ (~tcall.hallucination_grader.present \/ ~tcall.usefulness_grader.present))
         => tres = Res("utile", FALSE, <<>>)
    /\ (BothGradersAvailable
            /\ (\/ tcall.hallucination_grader.raises
                \/ (tcall.hallucination_grader.out # "no"
                    /\ tcall.usefulness_grader.raises)))
         => (tres.ret = "utile" /\ ~tres.escaped)
    /\ tcall.tool = "grade_answer_tool" => ~tres.escaped

C17_Witness ==
    /\ BothGradersAvailable
    /\ ~tcall.hallucination_grader.raises
    /\ tcall.hallucination_grader.out = "yes"
    /\ tcall.usefulness_grader.raises
    /\ Len(tres.log) = 2
    /\ tres.ret = "utile"

\* the relevance grader was called for document i and did this
Graded(i, outcome) ==
    /\ DocContent(tcall.documents[i]) # ""
    /\ tcall.relevance_grader.outcomes[i] = outcome

GradingRan ==
    /\ tcall.tool = "grade_documents_tool"
    /\ tcall.relevance_grader.present
    /\ tcall.documents # <<>>

\* C18: the output of grade_documents_tool is an order-preserving
\* sub-sequence of the input holding every document graded 'yes' and no
\* document graded 'no'; without a grader or with an empty list the input is
\* returned unchanged.
C18_GradingIsFilter ==
    /\ (tcall.tool = "grade_documents_tool"
            /\ (~tcall.relevance_grader.present \/ tcall.documents = <<>>))
         => tres = Res(tcall.documents, FALSE, <<>>)
    /\ GradingRan =>
         \E I \in SUBSET (1..Len(tcall.documents)) :
            /\ tres.ret = SubSeqAt(tcall.documents, I)
            /\ \A i \in 1..Len(tcall.documents) :
                  /\ Graded(i, "yes") => i \in I
                  /\ Graded(i, "no") => i \notin I

C18_Witness ==
    /\ GradingRan
    /\ Len(tcall.documents) = 2
    /\ tcall.documents[1] # tcall.documents[2]
    /\ Graded(1, "no")
    /\ Graded(2, "yes")
    /\ tres.ret = <<tcall.documents[2]>>

\* C19: a document whose grading raises is kept, every document with a text
\* is still graded on its own, and the others are kept or dropped by their
\* own grade.
C19_GradingFailOpenPerDocument ==
    GradingRan =>
        LET n == Len(tcall.documents)
            withText == { i \in 1..n : DocContent(tcall.documents[i]) # "" }
        IN  /\ ~tres.escaped
            /\ Len(tres.log) = Cardinality(withText)
            /\ tres.ret = SubSeqAt(tcall.documents,
                    { i \in 1..n : Graded(i, "raise") \/ Graded(i, "yes") })

C19_Witness ==
    /\ GradingRan
    /\ Len(tcall.documents) = 2
    /\ tcall.documents[1] # tcall.documents[2]
    /\ Graded(1, "raise")
    /\ Graded(2, "no")
    /\ Len(tres.log) = 2
    /\ tres.ret = <<tcall.documents[1]>>

\* C20: rewrite_query_tool returns the question unchanged when the rewriter
\* chain is absent or raises and the output of the chain otherwise; it never
\* raises.
C20_RewriteNeverBlocks ==
    tcall.tool = "rewrite_query_tool" =>
        /\ ~tres.escaped
        /\ tres.ret = IF ~tcall.rewriter_chain.present \/ tcall.rewriter_chain.raises
                      THEN tcall.question
                      ELSE tcall.rewriter_chain.out

C20_Witness ==
    /\ tcall.tool = "rewrite_query_tool"
    /\ tcall.question = "q1"
    /\ tcall.rewriter_chain.present
    /\ tcall.rewriter_chain.raises
    /\ Callees(tres.log) = <<"rewriter_chain">>
    /\ tres.ret = "q1"

----------------------------------------------------------------------------
(* SpecGrade: repeated runs of grade_documents_tool on one list of documents *)

\* runs of the tool on the same list
MaxRuns == 2

\* texts the relevance grader is asked about
GradedTexts == {"d1", "p1"}

\* a deterministic relevance grader (temperature 0): None, or a grader whose
\* outcome is a function of the text it is asked about
DeterministicGraders ==
    {[present |-> FALSE, verdict |-> [t \in GradedTexts |-> "no"]]} \cup
    { [present |-> TRUE, verdict |-> f] : f \in [GradedTexts -> RelevanceOutcomes] }

\* what the calls of grader g do for the documents of a list, by position
OutcomesFor(g, documents) ==
    [i \in 1..Len(documents) |->
        IF DocContent(documents[i]) \in GradedTexts
        THEN g.verdict[DocContent(documents[i])] ELSE "no"]

\* the heap when the caller has built its list: the documents are objects 1..n
\* and the list holds their references in order
CallerHeap(documents) ==
    [list |-> [i \in 1..Len(documents) |-> i], objs |-> documents,
     filtered |-> <<>>, runs |-> <<>>]

\* the value of a list of references: the documents as they stand
Deref(h, refs) == [k \in 1..Len(refs) |-> h.objs[refs[k]]]

\* the kept document is normalised in place: its text is stored under 'content'
filtered_docs_appendNormalised(h, d) ==
    [h EXCEPT !.filtered = Append(@, d),
              !.objs[d] = Doc(DocContent(@), @.page_content)]

(* graph_nodes.py:58, 62 *)
\* filtered_docs.append(d): the reference is added to the tool's own list
filtered_docs_append(h, d) == [h EXCEPT !.filtered = Append(@, d)]

(* graph_nodes.py:52-62 *)
RECURSIVE GradeLoop(_, _, _, _)
\* for d in documents, from position i of the caller's list as it stands: the
\* text is read from the document with d.get, the grader is asked about it,
\* and the document is appended when the grade is 'yes' or the grader raises
GradeLoop(h, qn, g, i) ==
    IF i > Len(h.list)
    THEN h
    ELSE LET d == h.list[i]
             content == DocContent(h.objs[d])
             grade == IF content \in GradedTexts THEN g.verdict[content] ELSE "no"
             h1 == IF content = "" THEN h
                   ELSE IF grade = "yes" THEN filtered_docs_append(h, d)
                   ELSE IF grade = "raise" THEN filtered_docs_append(h, d)
                   ELSE h
         IN  GradeLoop(h1, qn, g, i + 1)

(* graph_nodes.py:47-63 *)
\* one call of the tool on the caller's list, statement by statement on the
\* heap: the guard returns the list itself, otherwise filtered_docs starts
\* empty, the loop fills it and it is returned; the value returned is recorded
grade_documents_toolOnHeap(h, qn, g) ==
    IF ~g.present \/ h.list = <<>>
    THEN [h EXCEPT !.runs = Append(@, Deref(h, h.list))]
    ELSE LET h1 == GradeLoop([h EXCEPT !.filtered = <<>>], qn, g, 1)
         IN  [h1 EXCEPT !.runs = Append(@, Deref(h1, h1.filtered))]

\* the first call: the caller builds its list and hands it to the tool
GradeFirst ==
    /\ tcall = NoCall
    /\ \E documents \in DocLists, g \in DeterministicGraders :
         /\ tcall' = [tool |-> "grade_documents_tool", documents |-> documents,
                      question |-> "q1", relevance_grader |-> g]
         /\ tres' = grade_documents_tool(documents, "q1",
                        RelevanceGrader(g.present, OutcomesFor(g, documents)))
         /\ heap' = grade_documents_toolOnHeap(CallerHeap(documents), "q1", g)
    /\ UNCHANGED <<store, turn, db, ingest, loopVars>>

\* a further call on the same list object, as the earlier calls left it
GradeAgain ==
    /\ tcall.tool = "grade_documents_tool"
    /\ heap.runs # <<>>
    /\ Len(heap.runs) < MaxRuns
    /\ LET documents == Deref(heap, heap.list)
           g == tcall.relevance_grader
       IN  /\ tres' = grade_documents_tool(documents, tcall.question,
                          RelevanceGrader(g.present, OutcomesFor(g, documents)))
           /\ heap' = grade_documents_toolOnHeap(heap, tcall.question, g)
    /\ UNCHANGED <<tcall, store, turn, db, ingest, loopVars>>

NextGrade == GradeFirst \/ GradeAgain

SpecGrade == Init /\ [][NextGrade]_vars

\* C21: with a deterministic grader every run of grade_documents_tool on the
\* same list and question returns the same value, and after every run the
\* caller's list holds the same documents in the same order and every
\* document has the contents it had before the first run.
C21_GradingPure ==
    (tcall.tool = "grade_documents_tool" /\ heap.runs # <<>>)
    => /\ heap.list = [i \in 1..Len(tcall.documents) |-> i]
       /\ heap.objs = tcall.documents
       /\ \A i \in 1..Len(heap.runs) : heap.runs[i] = heap.runs[1]
       /\ tres.ret = heap.runs[Len(heap.runs)]

C21_Witness ==
    /\ tcall.tool = "grade_documents_tool"
    /\ tcall.relevance_grader.present
    /\ Len(tcall.documents) = 2
    /\ DocContent(tcall.documents[2]) = "p1"
    /\ Len(heap.runs) = 2
    /\ heap.filtered = <<2>>
    /\ heap.runs[1] = <<tcall.documents[2]>>
    /\ heap.runs[2] = heap.runs[1]
    /\ heap.objs = tcall.documents

----------------------------------------------------------------------------
(* SpecTurn: the tool calls of one assistant turn, run by the tool node in
   parallel on the shared graph store: the two blocking calls of a request
   are separate steps and the steps of different requests interleave *)

\* what the text-to-query chain does on one call: the translation fails, or
\* it generates and runs a read, or it generates and runs a write
TurnChains ==
    { Chain(TRUE, "none", TRUE, ""), Chain(TRUE, "MATCH", FALSE, "r1"),
      Chain(TRUE, "CREATE", FALSE, "r1") }

TurnQueries == { <<"z">>, <<"g">> }

\* a request for structured_query_tool in the assistant Message, with what
\* the chain does when it is executed
TurnCall(id, query, chain) ==
    [id |-> id, name |-> "structured_query_tool", query |-> query, chain |-> chain]

\* the requests of one assistant Message, identified by their position
TurnCallLists ==
    UNION { { c \in [1..n -> { TurnCall(i, q, ch) : i \in 1..n, q \in TurnQueries,
                                                    ch \in TurnChains }] :
                \A i \in 1..n : c[i].id = i } : n \in 1..MaxToolCalls }

\* graph stores at the start of the turn
TurnStores == { <<>>, <<Entity("Norma", <<"d">>, <<"a", "g">>)>> }

\* the graph handle shared by the calls
TurnGraph == Dep(TRUE, FALSE, "")

\* the tool node starts on the requests of the last assistant Message
TurnStart ==
    /\ turn = NoTurn
    /\ \E calls \in TurnCallLists, st \in TurnStores :
         /\ turn' = [calls |-> calls, start |-> st, pending |-> 1..Len(calls),
                     inflight |-> {}, results |-> [i \in {} |-> <<>>], phase |-> "tools"]
         /\ store' = st
    /\ UNCHANGED <<tcall, tres, heap, db, ingest, loopVars>>

\* the result of request i is recorded under its identifier
TurnResult(results, i, c, ret) ==
    [j \in DOMAIN results \cup {i} |->
        IF j = i THEN [tool_call_id |-> c.id, content |-> ret] ELSE results[j]]

\* a pending request starts: its guard and its graph_qa_chain.invoke run; it
\* returns, or it is left in flight with its fallback query still to make
TurnInvokeChain ==
    /\ turn # NoTurn
    /\ turn.phase = "tools"
    /\ \E i \in turn.pending :
         LET c == turn.calls[i]
             o == structured_query_chain(c.query, c.chain, TurnGraph, store)
         IN  /\ store' = o.store
             /\ turn' = [turn EXCEPT
                    !.pending = @ \ {i},
                    !.inflight = IF o.done THEN @ ELSE @ \cup {i},
                    !.results = IF o.done THEN TurnResult(@, i, c, o.res.ret) ELSE @]
    /\ UNCHANGED <<tcall, tres, heap, db, ingest, loopVars>>

\* a request in flight makes its fallback query and returns
TurnFallback ==
    /\ turn # NoTurn
    /\ turn.phase = "tools"
    /\ \E i \in turn.inflight :
         LET c == turn.calls[i]
             ccalls == structured_query_chain(c.query, c.chain, TurnGraph, store).res.log
             o == structured_query_fallback(c.query, TurnGraph, ccalls, store)
         IN  /\ store' = o.store
             /\ turn' = [turn EXCEPT
                    !.inflight = @ \ {i},
                    !.results = TurnResult(@, i, c, o.res.ret)]
    /\ UNCHANGED <<tcall, tres, heap, db, ingest, loopVars>>

\* edge tools -> agent: the results of all requests have been collected
TurnCollect ==
    /\ turn # NoTurn
    /\ turn.phase = "tools"
    /\ turn.pending = {}
    /\ turn.inflight = {}
    /\ turn' = [turn EXCEPT !.phase = "agent"]
    /\ UNCHANGED <<tcall, tres, store, heap, db, ingest, loopVars>>

NextTurn == TurnStart \/ TurnInvokeChain \/ TurnFallback \/ TurnCollect

SpecTurn == Init /\ [][NextTurn]_vars

RECURSIVE InListedOrder(_, _, _)
\* the results of requests i.. when they are executed one after the other in
\* the order of the assistant Message, from store st
InListedOrder(calls, st, i) ==
    IF i > Len(calls)
    THEN [j \in {} |-> <<>>]
    ELSE LET c == calls[i]
             o == structured_query_tool(c.query, c.chain, TurnGraph, st)
             rest == InListedOrder(calls, o.store, i + 1)
         IN  [j \in DOMAIN rest \cup {i} |->
                IF j = i THEN [tool_call_id |-> c.id, content |-> o.res.ret]
                ELSE rest[j]]

\* C22: whatever the order in which the requests of one assistant turn are
\* executed, the results handed to the next Reasoning invocation are those of
\* executing them in the listed order, each under the identifier of its own
\* request, and Reasoning starts only when every request has its result.
C22_OrderIndependent ==
    (turn # NoTurn /\ turn.phase = "agent")
    => /\ turn.pending = {}
       /\ DOMAIN turn.results = 1..Len(turn.calls)
       /\ \A i \in 1..Len(turn.calls) : turn.results[i].tool_call_id = turn.calls[i].id
       /\ turn.results = InListedOrder(turn.calls, turn.start, 1)

----------------------------------------------------------------------------
(* SpecIndex: hybrid_search_tool on the chatbot's Neo4jVector, with any
   number of matching nodes *)

\* nodes of the index that match one query
MaxIndex == 4

IndexMatches == { Match(c, "doc1", Missing) : c \in {"c1", "c2"} }

\* the chatbot's vector store when up to MaxIndex nodes match the query
IndexStores ==
    { Neo4jVector(h) : h \in UNION { [1..n -> IndexMatches] : n \in 0..MaxIndex } }

\* graph handles: None, or one that answers each related-context query with
\* no record or with one
IndexGraphs(n) ==
    {EnrichGraph(FALSE, <<>>)} \cup
    { EnrichGraph(TRUE, r) :
        r \in [1..n -> { [raises |-> FALSE, records |-> <<>>],
                         [raises |-> FALSE, records |-> <<"rel1">>] }] }

InvokeHybridSearchIndex ==
    /\ tcall = NoCall
    /\ \E query \in SearchQueries, vs \in IndexStores :
         \E graph \in IndexGraphs(Len(vs.hits)) :
            /\ tcall' = [tool |-> "hybrid_search_tool", query |-> query,
                         vector_store |-> vs, graph |-> graph]
            /\ tres' = hybrid_search_tool(query, vs, graph)
    /\ UNCHANGED <<store, loopVars, extVars>>

NextIndex == InvokeHybridSearchIndex

SpecIndex == Init /\ [][NextIndex]_vars

----------------------------------------------------------------------------
(* Properties of the retrieval and grading tools, continued *)

\* the matches the index answered the search of the last call with
IndexResponse == similarity_search(tcall.vector_store, search_kwargs.k)

HybridSearched ==
    /\ tcall.tool = "hybrid_search_tool"
    /\ tcall.vector_store.present
    /\ ~tcall.vector_store.raises

\* the related-context query of match i is made and answers with a record
Enriched(i) ==
    /\ tcall.graph.present
    /\ DocId(IndexResponse[i].metadata) # ""
    /\ ~tcall.graph.related[i].raises
    /\ tcall.graph.related[i].records # <<>>

\* C23: hybrid search returns one Document per match of the index, in the
\* order of the index, with the content and metadata of the match; its
\* related_context is the first record the graph returned when a graph is
\* available, the metadata give an identifier and the graph returned a record,
\* and is absent otherwise.
C23_OneDocumentPerMatch ==
    HybridSearched =>
        /\ Len(tres.ret) = Len(IndexResponse)
        /\ \A i \in 1..Len(tres.ret) :
              /\ tres.ret[i].content = IndexResponse[i].page_content
              /\ tres.ret[i].metadata = IndexResponse[i].metadata
              /\ IF Enriched(i)
                 THEN /\ "related_context" \in DOMAIN tres.ret[i]
                      /\ tres.ret[i].related_context = tcall.graph.related[i].records[1]
                 ELSE DOMAIN tres.ret[i] = {"content", "metadata"}

C23_Witness ==
    /\ HybridSearched
    /\ Len(IndexResponse) = 2
    /\ IndexResponse[1].metadata.id = Missing
    /\ IndexResponse[1].metadata.source = "src1"
    /\ Enriched(1)
    /\ tcall.graph.related[1].records = <<"rel1", "rel2">>
    /\ tres.ret[1].related_context = "rel1"
    /\ DocId(IndexResponse[2].metadata) = ""
    /\ DOMAIN tres.ret[2] = {"content", "metadata"}

\* the related-context query of match i is made and raises
EnrichmentRaises(i) ==
    /\ tcall.graph.present
    /\ DocId(IndexResponse[i].metadata) # ""
    /\ tcall.graph.related[i].raises

\* C24: when the related-context query of a match raises, the match still
\* gives a Document, without related_context, and so does every other match:
\* the number of Documents is the number of matches.
C24_EnrichmentBestEffort ==
    (HybridSearched /\ \E i \in 1..Len(IndexResponse) : EnrichmentRaises(i))
    => /\ ~tres.escaped
       /\ tres.ret # <<>>
       /\ Len(tres.ret) = Len(IndexResponse)
       /\ \A i \in 1..Len(IndexResponse) :
             EnrichmentRaises(i) =>
                tres.ret[i] = [content |-> IndexResponse[i].page_content,
                               metadata |-> IndexResponse[i].metadata]

C24_Witness ==
    /\ HybridSearched
    /\ Len(IndexResponse) = 2
    /\ EnrichmentRaises(1)
    /\ Enriched(2)
    /\ Len(tres.ret) = 2
    /\ DOMAIN tres.ret[1] = {"content", "metadata"}
    /\ tres.ret[2].related_context = "rel1"

\* C25: on the chatbot's vector store the list returned by hybrid_search_tool
\* has at most 3 Documents, whatever the query and however many nodes of the
\* index match: they are the 3 best matches, or all matches when fewer than 3.
C25_AtMostThree ==
    tcall.tool = "hybrid_search_tool" =>
        /\ Len(tres.ret) <= 3
        /\ HybridSearched =>
              /\ Len(tcall.vector_store.hits) >= 3 => Len(tres.ret) = 3
              /\ Len(tcall.vector_store.hits) < 3
                    => Len(tres.ret) = Len(tcall.vector_store.hits)
              /\ \A i \in 1..Len(tres.ret) :
                    tres.ret[i].content = tcall.vector_store.hits[i].page_content

C25_Witness ==
    /\ HybridSearched
    /\ tcall.vector_store.limit
    /\ Len(tcall.vector_store.hits) = 4
    /\ tcall.vector_store.hits[3].page_content = "c1"
    /\ tcall.vector_store.hits[4].page_content = "c2"
    /\ Len(tres.ret) = 3
    /\ tres.ret[3].content = "c1"

WebSearched ==
    /\ tcall.tool = "web_search_tool"
    /\ tcall.tavily_client.present
    /\ ~tcall.tavily_client.raises

\* C26: web search asks the provider for at most 3 results and returns one
\* Document per result of the response, in its order, made of the result's
\* content, url and title with the empty string for a missing field; a
\* response without 'results' gives the empty list.
C26_OneDocumentPerResult ==
    /\ (tcall.tool = "web_search_tool" /\ tcall.tavily_client.present)
         => (Len(tres.log) = 1
             /\ tres.log[1].callee = "tavily_client.search"
             /\ tres.log[1].arg[1] = tcall.query
             /\ tres.log[1].arg[2] <= 3)
    /\ (WebSearched /\ ~tcall.tavily_client.has_results) => tres.ret = <<>>
    /\ (WebSearched /\ tcall.tavily_client.has_results)
         => /\ Len(tres.ret) = Len(tcall.tavily_client.results)
            /\ \A i \in 1..Len(tres.ret) :
                  LET r == tcall.tavily_client.results[i]
                  IN  /\ DOMAIN tres.ret[i] = {"content", "url", "title"}
                      /\ tres.ret[i].content = (IF r.content = Missing THEN "" ELSE r.content)
                      /\ tres.ret[i].url = (IF r.url = Missing THEN "" ELSE r.url)
                      /\ tres.ret[i].title = (IF r.title = Missing THEN "" ELSE r.title)

C26_Witness ==
    /\ WebSearched
    /\ tcall.tavily_client.has_results
    /\ Len(tcall.tavily_client.results) = 2
    /\ tcall.tavily_client.results[1].content = Missing
    /\ tcall.tavily_client.results[2].content = "w1"
    /\ tcall.tavily_client.results[2].url = "u1"
    /\ tres.ret[1].content = ""
    /\ tres.ret[2] = WebResult("w1", "u1", "t1")

\* C28: grade_answer_tool returns one of "utile", "non utile" and
\* "non supportato", whatever graders are available, whatever verdict strings
\* they return and whether or not they raise.
C28_ThreeVerdicts ==
    tcall.tool = "grade_answer_tool"
    => /\ ~tres.escaped
       /\ tres.ret \in {"utile", "non utile", "non supportato"}

C28_Witness ==
    /\ BothGradersAvailable
    /\ ~tcall.hallucination_grader.raises
    /\ tcall.hallucination_grader.out = "maybe"
    /\ ~tcall.usefulness_grader.raises
    /\ tcall.usefulness_grader.out = "maybe"
    /\ tres.ret = "utile"

\* C29: with a relevance grader, a document whose 'content' and
\* 'page_content' are both empty is dropped without a call of the grader,
\* whatever the grader would have done, while a document whose grading
\* raises is kept.
C29_EmptyDocumentsDropped ==
    GradingRan =>
        /\ \A i \in 1..Len(tres.ret) : DocContent(tres.ret[i]) # ""
        /\ \A i \in 1..Len(tres.log) : tres.log[i].arg[2] # ""
        /\ Len(tres.log) =
             Cardinality({ i \in 1..Len(tcall.documents) :
                             DocContent(tcall.documents[i]) # "" })
        /\ \A i \in 1..Len(tcall.documents) :
              Graded(i, "raise") =>
                 \E j \in 1..Len(tres.ret) : tres.ret[j] = tcall.documents[i]

C29_Witness ==
    /\ GradingRan
    /\ Len(tcall.documents) = 2
    /\ tcall.documents[1] = Doc("", "")
    /\ tcall.relevance_grader.outcomes[1] = "yes"
    /\ Graded(2, "raise")
    /\ tres.ret = <<tcall.documents[2]>>
    /\ Len(tres.log) = 1

----------------------------------------------------------------------------
(* ingest.py:88-155, convert_to_graph_document *)

\* entities of one extracted knowledge graph
MaxEntities == 2

\* relationships of one extracted knowledge graph
MaxRels == 2

\* schema.py:37-45, an extracted entity; description is a text or None
ExtractedEntity(id, description) ==
    [id |-> id, type |-> "Persona", name |-> "n1", description |-> description]

ExtractedEntities ==
    { ExtractedEntity(id, d) : id \in {"e1", "e2"}, d \in {Missing, "desc"} }

\* schema.py:47-53, an extracted relationship
ExtractedRelationship(source_entity_id, target_entity_id) ==
    [source_entity_id |-> source_entity_id, target_entity_id |-> target_entity_id,
     type |-> "CITA", description |-> Missing]

ExtractedRelationships ==
    { ExtractedRelationship(a, b) : a \in {"e1", "e2", "e3"}, b \in {"e1", "e2", "e3"} }

\* schema.py:55-58
KnowledgeGraph(entities, relationships) ==
    [entities |-> entities, relationships |-> relationships]

KnowledgeGraphs ==
    { KnowledgeGraph(e, r) :
        e \in UNION { [1..n -> ExtractedEntities] : n \in 0..MaxEntities },
        r \in UNION { [1..n -> ExtractedRelationships] : n \in 0..MaxRels } }

\* an argument that is not a knowledge graph: reading kg.entities raises
NoKnowledgeGraph == [malformed |-> TRUE]

\* value returned by the except clause (ingest.py:153-155)
NoGraphDocument == [none |-> TRUE]

\* x or ""
OrEmpty(x) == IF x = Missing THEN "" ELSE x

\* ingest.py:97-109 (the properties None for every entity are left out)
Node(entity, chunk_id, source_document) ==
    [id |-> entity.id, type |-> entity.type,
     properties |-> [name |-> entity.name,
                     description |-> OrEmpty(entity.description),
                     chunk_id |-> chunk_id,
                     source_document |-> source_document]]

\* ingest.py:115, 119-120: node_map.get(id); of the nodes with one id the dict
\* comprehension keeps the last
InNodeMap(nodes, id) == \E i \in 1..Len(nodes) : nodes[i].id = id

NodeMapGet(nodes, id) ==
    nodes[CHOOSE i \in 1..Len(nodes) :
            /\ nodes[i].id = id
            /\ \A j \in (i + 1)..Len(nodes) : nodes[j].id # id]

\* ingest.py:123-132
GraphRelationship(source, target, rel, chunk_id, source_document) ==
    [source |-> source, target |-> target, type |-> rel.type,
     properties |-> [description |-> OrEmpty(rel.description),
                     chunk_id |-> chunk_id,
                     source_document |-> source_document]]

\* a relationship is made for every extracted one; an endpoint that is no
\* extracted entity becomes a node of its own, outside the node list
convert_to_graph_documentDangling(kg, chunk_id, source_document) ==
    IF kg = NoKnowledgeGraph
    THEN NoGraphDocument
    ELSE LET nodes == [i \in 1..Len(kg.entities) |->
                          Node(kg.entities[i], chunk_id, source_document)]
             End(id) == IF InNodeMap(nodes, id) THEN NodeMapGet(nodes, id)
                        ELSE Node(ExtractedEntity(id, Missing), chunk_id, source_document)
         IN  [nodes |-> nodes,
              relationships |->
                 [i \in 1..Len(kg.relationships) |->
                    GraphRelationship(End(kg.relationships[i].source_entity_id),
                                      End(kg.relationships[i].target_entity_id),
                                      kg.relationships[i], chunk_id, source_document)],
              source |-> [page_content |-> <<"Chunk", chunk_id, "from", source_document>>,
                          metadata |-> [chunk_id |-> chunk_id,
                                        source_document |-> source_document]]]

convert_to_graph_document(kg, chunk_id, source_document) ==
    IF kg = NoKnowledgeGraph
    THEN NoGraphDocument
    ELSE LET nodes == [i \in 1..Len(kg.entities) |->
                          Node(kg.entities[i], chunk_id, source_document)]
             matched == SelectSeq(kg.relationships, LAMBDA rel :
                            /\ InNodeMap(nodes, rel.source_entity_id)
                            /\ InNodeMap(nodes, rel.target_entity_id))
         IN  [nodes |-> nodes,
              relationships |->
                 [i \in 1..Len(matched) |->
                    GraphRelationship(NodeMapGet(nodes, matched[i].source_entity_id),
                                      NodeMapGet(nodes, matched[i].target_entity_id),
                                      matched[i], chunk_id, source_document)],
              source |-> [page_content |-> <<"Chunk", chunk_id, "from", source_document>>,
                          metadata |-> [chunk_id |-> chunk_id,
                                        source_document |-> source_document]]]

ChunkIds == {"c1", "c2"}

SourceDocuments == {"a.pdf", "b.pdf"}

InvokeConvert ==
    /\ tcall = NoCall
    /\ \E kg \in KnowledgeGraphs \cup {NoKnowledgeGraph} :
         /\ tcall' = [tool |-> "convert_to_graph_document", kg |-> kg,
                      chunk_id |-> "c1", source_document |-> "a.pdf"]
         /\ tres' = Res(convert_to_graph_document(kg, "c1", "a.pdf"), FALSE, <<>>)
    /\ UNCHANGED <<store, loopVars, extVars>>

NextConvert == InvokeConvert

SpecConvert == Init /\ [][NextConvert]_vars

Converted ==
    /\ tcall.tool = "convert_to_graph_document"
    /\ tres.ret # NoGraphDocument

\* C30: in a GraphDocument made by convert_to_graph_document the node list
\* has one node per extracted entity, in order; its relationships are the
\* extracted relationships whose source and target ids are both ids of
\* extracted entities, in order, and both endpoints of each are nodes of the
\* node list.
C30_EndpointsAreNodes ==
    Converted =>
        LET kg == tcall.kg
            gd == tres.ret
            ids == { kg.entities[i].id : i \in 1..Len(kg.entities) }
            matched == SelectSeq(kg.relationships, LAMBDA rel :
                          rel.source_entity_id \in ids /\ rel.target_entity_id \in ids)
        IN  /\ Len(gd.nodes) = Len(kg.entities)
            /\ \A i \in 1..Len(gd.nodes) : gd.nodes[i].id = kg.entities[i].id
            /\ Len(gd.relationships) = Len(matched)
            /\ \A i \in 1..Len(gd.relationships) :
                  /\ gd.relationships[i].source.id = matched[i].source_entity_id
                  /\ gd.relationships[i].target.id = matched[i].target_entity_id
                  /\ \E a \in 1..Len(gd.nodes) : gd.nodes[a] = gd.relationships[i].source
                  /\ \E b \in 1..Len(gd.nodes) : gd.nodes[b] = gd.relationships[i].target

C30_Witness ==
    /\ Converted
    /\ Len(tcall.kg.entities) = 2
    /\ tcall.kg.entities[1].id = "e1"
    /\ tcall.kg.entities[2].id = "e2"
    /\ Len(tcall.kg.relationships) = 2
    /\ tcall.kg.relationships[1] = ExtractedRelationship("e1", "e3")
    /\ tcall.kg.relationships[2] = ExtractedRelationship("e2", "e1")
    /\ Len(tres.ret.nodes) = 2
    /\ Len(tres.ret.relationships) = 1
    /\ tres.ret.relationships[1].source = tres.ret.nodes[2]
    /\ tres.ret.relationships[1].target = tres.ret.nodes[1]

----------------------------------------------------------------------------
(* ingest.py:65-72, 157-264, SpecIngest: clear_database and process_document_json on the database *)

\* calls of process_document_json
MaxIngests == 2

\* a chunk of a document JSON file: 'id' and 'testo'
Chunk(id, testo) == [id |-> id, testo |-> testo]

\* the chunk lists of the files: the chunk at position i has the i-th id
ChunkLists ==
    { <<>> } \cup { <<Chunk("c1", t)>> : t \in {"", "t1"} }
             \cup { <<Chunk("c1", t), Chunk("c2", u)>> : t \in {"", "t1"}, u \in {"", "t1"} }

\* a document JSON file; opening or parsing an unreadable one raises
JsonFile(readable, file_sorgente, chunks) ==
    [readable |-> readable, file_sorgente |-> file_sorgente, chunks |-> chunks]

JsonFiles ==
    { JsonFile(FALSE, "", <<>>) } \cup
    { JsonFile(TRUE, src, c) : src \in SourceDocuments, c \in ChunkLists }

\* what the collaborators do while one chunk is processed: the extraction
\* chain raises or returns kg, graph.add_graph_documents raises or not,
\* vector_store.add_documents raises or not
ChunkBehaviour(extract_raises, kg, graph_raises, vector_raises) ==
    [extract_raises |-> extract_raises, kg |-> kg, graph_raises |-> graph_raises,
     vector_raises |-> vector_raises]

IngestKGs ==
    { KnowledgeGraph(<<ExtractedEntity("e1", d)>>, <<>>) : d \in {Missing, "desc"} }

ChunkBehaviours ==
    { ChunkBehaviour(TRUE, KnowledgeGraph(<<>>, <<>>), FALSE, FALSE) } \cup
    { ChunkBehaviour(FALSE, kg, FALSE, FALSE) : kg \in IngestKGs } \cup
    { ChunkBehaviour(FALSE, KnowledgeGraph(<<ExtractedEntity("e1", "desc")>>, <<>>), g, v) :
        g \in BOOLEAN, v \in BOOLEAN }

\* a node of the database: its label and its properties
DbNode(label, key, chunk_id, source_document) ==
    [label |-> label, key |-> key, chunk_id |-> chunk_id,
     source_document |-> source_document]

(* ingest.py:74-86 *)
extract_knowledge_graph(behaviour) ==
    IF behaviour.extract_raises THEN KnowledgeGraph(<<>>, <<>>) ELSE behaviour.kg

\* ingest.py:172, graph.add_graph_documents: one node per node of the graph
\* document, labelled with its type and merged on its id
GraphNodes(gd) ==
    { DbNode(gd.nodes[i].type, gd.nodes[i].id, gd.nodes[i].properties.chunk_id,
             gd.nodes[i].properties.source_document) : i \in 1..Len(gd.nodes) }

\* ingest.py:52-63, 166-169, 177, vector_store.add_documents: one node
\* labelled Entity per node with a description, carrying the node's properties
EmbeddedNodes(gd) ==
    { DbNode("Entity", gd.nodes[i].properties.description,
             gd.nodes[i].properties.chunk_id, gd.nodes[i].properties.source_document) :
        i \in { j \in 1..Len(gd.nodes) : gd.nodes[j].properties.description # "" } }

(* ingest.py:157-181; the database afterwards *)
store_graph_and_embeddings(graph_document, behaviour, nodes) ==
    IF graph_document = NoGraphDocument
    THEN nodes
    ELSE IF behaviour.graph_raises
    THEN nodes
    ELSE IF EmbeddedNodes(graph_document) # {} /\ ~behaviour.vector_raises
    THEN nodes \cup GraphNodes(graph_document) \cup EmbeddedNodes(graph_document)
    ELSE nodes \cup GraphNodes(graph_document)

(* ingest.py:210-228; the database afterwards *)
process_chunk(chunk_data, source_document, behaviour, nodes) ==
    IF chunk_data.testo = ""
    THEN nodes
    ELSE store_graph_and_embeddings(
            convert_to_graph_document(extract_knowledge_graph(behaviour),
                                      chunk_data.id, source_document),
            behaviour, nodes)

(* ingest.py:230-242 *)
document_already_processed(source_document, query_raises, nodes) ==
    IF query_raises
    THEN FALSE
    ELSE Cardinality({ n \in nodes : n.label = "Entity"
                                     /\ n.source_document = source_document }) > 0

RECURSIVE ProcessChunks(_, _, _, _, _)
\* ingest.py:260-261, chunks i.. of the list
ProcessChunks(chunks, source_document, behaviours, nodes, i) ==
    IF i > Len(chunks)
    THEN [nodes |-> nodes, processed |-> <<>>]
    ELSE LET after == process_chunk(chunks[i], source_document, behaviours[i], nodes)
             rest == ProcessChunks(chunks, source_document, behaviours, after, i + 1)
         IN  [nodes |-> rest.nodes,
              processed |-> IF chunks[i].testo = "" THEN rest.processed
                            ELSE <<chunks[i].id>> \o rest.processed]

\* number of chunks of a list that have a text
Texts(chunks) == Cardinality({ i \in 1..Len(chunks) : chunks[i].testo # "" })

(* ingest.py:244-264; the database afterwards, the outcome of the check and
   the chunks handed to the extraction *)
process_document_json(file, query_raises, behaviours, nodes) ==
    IF ~file.readable
    THEN [nodes |-> nodes, source_document |-> "<unread>", check |-> "none",
          texts |-> 0, processed |-> <<>>]
    ELSE IF document_already_processed(file.file_sorgente, query_raises, nodes)
    THEN [nodes |-> nodes, source_document |-> file.file_sorgente, check |-> "found",
          texts |-> Texts(file.chunks), processed |-> <<>>]
    ELSE LET o == ProcessChunks(file.chunks, file.file_sorgente, behaviours, nodes, 1)
         IN  [nodes |-> o.nodes, source_document |-> file.file_sorgente,
              check |-> IF query_raises THEN "raised" ELSE "absent",
              texts |-> Texts(file.chunks), processed |-> o.processed]

Ingest ==
    /\ ingest.calls < MaxIngests
    /\ \E file \in JsonFiles, query_raises \in BOOLEAN :
         \E behaviours \in [1..Len(file.chunks) -> ChunkBehaviours] :
            LET o == process_document_json(file, query_raises, behaviours, db)
            IN  /\ db' = o.nodes
                /\ ingest' = [source_document |-> o.source_document, check |-> o.check,
                              texts |-> o.texts, processed |-> o.processed,
                              calls |-> ingest.calls + 1]
    /\ UNCHANGED <<tcall, tres, store, heap, turn, loopVars>>

(* ingest.py:65-72 *)
\* clear_database: MATCH (n) DETACH DELETE n removes every node; a query
\* that raises is logged and leaves the database as it was
clear_database(query_raises, nodes) == IF query_raises THEN nodes ELSE {}

ClearDatabase ==
    /\ \E query_raises \in BOOLEAN : db' = clear_database(query_raises, db)
    /\ UNCHANGED <<ingest, tcall, tres, store, heap, turn, loopVars>>

NextIngest == Ingest \/ ClearDatabase

SpecIngest == Init /\ [][NextIngest]_vars

\* the database holds an Entity node of the document
HoldsEntityOf(nodes, source_document) ==
    \E n \in nodes : n.label = "Entity" /\ n.source_document = source_document

\* C27: a call of process_document_json for a document of which
\* the database holds an Entity node hands no chunk to the extraction and
\* leaves the database as it was.
C27_ProcessedDocumentSkipped ==
    [][ (ingest'.calls = ingest.calls + 1 /\ HoldsEntityOf(db, ingest'.source_document))
        => (ingest'.processed = <<>> /\ db' = db) ]_vars

====
